---- MODULE Spec2Model ----
(***************************************************************************)
(* Model of the Company CRUD service: the marshmallow validation schema    *)
(* (app/schemas.py), the SQLAlchemy model (app/models.py), the REST        *)
(* resources (app/resources/companies.py), the bulk import resources       *)
(* (app/resources/import_from.py) and the CSV export                       *)
(* (app/resources/export_to.py).                                           *)
(*                                                                         *)
(* JSON / Python values are tagged records: None, VStr(s) with s a         *)
(* sequence of one-character strings, VInt(n), VBool(b).  A payload        *)
(* (json_data) is a function from the keys it carries to such values.     *)
(***************************************************************************)
EXTENDS Integers, Sequences, FiniteSets, TLC

VARIABLES store, issued, now, last, pending, scope

vars == <<store, issued, now, last, pending, scope>>

(* ------------------------------ bounds -------------------------------- *)

\* number of requests served in one behaviour (also the logical clock)
MaxReqs == 2
\* number of ids uuid4 hands out in one behaviour
MaxIds == 2

(* ------------------------------ values -------------------------------- *)

None == [t |-> "none"]
VStr(s) == [t |-> "str", v |-> s]
VInt(n) == [t |-> "int", v |-> n]
VBool(b) == [t |-> "bool", v |-> b]
Invalid == [t |-> "invalid"]

IsNone(v) == v.t = "none"

\* Python truthiness of a value (`if value:`)
Truthy(v) ==
    CASE v.t = "str" -> Len(v.v) > 0
      [] v.t = "int" -> v.v # 0
      [] v.t = "bool" -> v.v
      [] OTHER -> FALSE

\* str.startswith
StartsWith(s, p) == Len(s) >= Len(p) /\ SubSeq(s, 1, Len(p)) = p

\* `c in s`
Contains(s, c) == \E i \in 1..Len(s) : s[i] = c

Http == <<"h", "t", "t", "p", ":", "/", "/">>
Https == <<"h", "t", "t", "p", "s", ":", "/", "/">>

Digits == <<"0", "1", "2", "3", "4", "5", "6", "7", "8", "9">>

IsDigit(c) == \E d \in 1..10 : Digits[d] = c

DigitVal(c) == (CHOOSE d \in 1..10 : Digits[d] = c) - 1

\* int("...") of a string of decimal digits
RECURSIVE ParseInt(_)
ParseInt(s) ==
    IF Len(s) = 0 THEN 0
    ELSE 10 * ParseInt(SubSeq(s, 1, Len(s) - 1)) + DigitVal(s[Len(s)])

\* str(uuid.uuid4()): the n-th id handed out; ids are never handed out twice
IdStr(n) == VStr(<<"#", Digits[n + 1]>>)

\* a bug that hands out the same id twice
NextId_Reuse(n) == IdStr(1)

\* company_id = str(uuid.uuid4()) when n ids were handed out before
NextId(n) == IdStr(n + 1)

(* ------------------------------ columns ------------------------------- *)

\* parameters of Company.update, the fields a client may set
ClientFields ==
    {"name", "description", "logo_url", "parent_id", "organization_id",
     "address", "email", "phone_number", "website", "registration_number",
     "tax_id", "country", "city", "postal_code", "employees_count",
     "is_active"}

\* Meta.dump_only
DumpOnly == {"id", "created_at", "updated_at"}

Columns == ClientFields \cup DumpOnly

\* columns declared db.String
StringFields == ClientFields \ {"employees_count", "is_active"}

\* keyword parameters of Company.create (organization_id is not one of them)
CreateParams == ClientFields \ {"organization_id"}

(* ------------------------------ queries ------------------------------- *)

\* Company.get_by_id: the rows with that primary key (none or one)
GetById(st, id) == {r \in st : r.id = id}

\* a bug that filters on the wrong column
GetByName_WrongColumn(st, name) == {r \in st : r.id = name}

\* Company.get_by_name: the rows with that name
GetByName(st, name) == {r \in st : r.name = name}

(* --------------------------- CompanySchema ----------------------------- *)

TrueStrings == {<<"T", "r", "u", "e">>, <<"t", "r", "u", "e">>, <<"1">>}
FalseStrings == {<<"F", "a", "l", "s", "e">>, <<"f", "a", "l", "s", "e">>, <<"0">>}

\* field deserialisation of the auto-generated schema: String columns take
\* strings, the Integer column takes integers and decimal strings, the
\* Boolean column takes booleans and the usual spellings; None is kept
Deser(f, v) ==
    IF IsNone(v) THEN None
    ELSE IF f \in StringFields THEN (IF v.t = "str" THEN v ELSE Invalid)
    ELSE IF f = "employees_count" THEN
        (CASE v.t = "int" -> v
           [] v.t = "str" /\ Len(v.v) > 0 /\ \A i \in 1..Len(v.v) : IsDigit(v.v[i])
                -> VInt(ParseInt(v.v))
           [] OTHER -> Invalid)
    ELSE
        (CASE v.t = "bool" -> v
           [] v.t = "str" /\ v.v \in TrueStrings -> VBool(TRUE)
           [] v.t = "str" /\ v.v \in FalseStrings -> VBool(FALSE)
           [] OTHER -> Invalid)

MaxName == 100
MaxDescription == 500
MaxLogoUrl == 255
MaxAddress == 255
MaxEmail == 100
MaxPhoneNumber == 20
MaxWebsite == 100
MaxRegistrationNumber == 100
MaxTaxId == 50
MaxCountry == 100
MaxCity == 100
MaxPostalCode == 20

\* a bug that forgets the lookup by name
validate_name_NoLookup(value, st) ==
    \/ ~Truthy(value)
    \/ Len(value.v) > MaxName

validate_name(value, st) ==
    \/ ~Truthy(value)
    \/ GetByName(st, value) # {}
    \/ Len(value.v) > MaxName

\* a bug that rejects a value of exactly the maximum length
validate_description_Inclusive(value) ==
    Truthy(value) /\ Len(value.v) >= MaxDescription

validate_description(value) == Truthy(value) /\ Len(value.v) > MaxDescription

validate_logo_url(value) ==
    \/ Truthy(value) /\ ~(StartsWith(value.v, Http) \/ StartsWith(value.v, Https))
    \/ Truthy(value) /\ Len(value.v) > MaxLogoUrl

\* a bug that inverts the test on the lookup
validate_parent_id_Inverted(value, st) ==
    Truthy(value) /\ (value.t # "str" \/ GetById(st, value) # {})

validate_parent_id(value, st) ==
    Truthy(value) /\ (value.t # "str" \/ GetById(st, value) = {})

validate_address(value) == Truthy(value) /\ Len(value.v) > MaxAddress

validate_email(value) ==
    \/ Truthy(value) /\ Len(value.v) > MaxEmail
    \/ Truthy(value) /\ ~Contains(value.v, "@")

validate_phone_number(value) == Truthy(value) /\ Len(value.v) > MaxPhoneNumber

validate_website(value) ==
    \/ Truthy(value) /\ ~(StartsWith(value.v, Http) \/ StartsWith(value.v, Https))
    \/ Truthy(value) /\ Len(value.v) > MaxWebsite

validate_registration_number(value) ==
    Truthy(value) /\ Len(value.v) > MaxRegistrationNumber

validate_tax_id(value) == Truthy(value) /\ Len(value.v) > MaxTaxId

validate_country(value) == Truthy(value) /\ Len(value.v) > MaxCountry

validate_city(value) == Truthy(value) /\ Len(value.v) > MaxCity

validate_postal_code(value) == Truthy(value) /\ Len(value.v) > MaxPostalCode

validate_employees_count(value) ==
    ~IsNone(value) /\ (value.t # "int" \/ value.v < 0)

\* TRUE when the @validates method of field f raises for the deserialised value
Validator(f, value, st) ==
    CASE f = "name" -> validate_name(value, st)
      [] f = "description" -> validate_description(value)
      [] f = "logo_url" -> validate_logo_url(value)
      [] f = "parent_id" -> validate_parent_id(value, st)
      [] f = "address" -> validate_address(value)
      [] f = "email" -> validate_email(value)
      [] f = "phone_number" -> validate_phone_number(value)
      [] f = "website" -> validate_website(value)
      [] f = "registration_number" -> validate_registration_number(value)
      [] f = "tax_id" -> validate_tax_id(value)
      [] f = "country" -> validate_country(value)
      [] f = "city" -> validate_city(value)
      [] f = "postal_code" -> validate_postal_code(value)
      [] f = "employees_count" -> validate_employees_count(value)
      [] OTHER -> FALSE

\* TRUE when the supplied value of field f is rejected: null for the one
\* non-nullable column, a value of the wrong type, or a raising validator
FieldError(f, v, st) ==
    IF IsNone(v) /\ f = "name" THEN TRUE
    ELSE IF Deser(f, v) = Invalid THEN TRUE
    ELSE Validator(f, Deser(f, v), st)

\* a bug that requires name on a partial load too
Errors_RequiredOnPartial(data, partial, st) ==
    {f \in DOMAIN data : f \notin ClientFields}
        \cup {f \in {"name"} : f \notin DOMAIN data}
        \cup {f \in DOMAIN data \cap ClientFields : FieldError(f, data[f], st)}

\* a bug that runs no field validator on a partial load
Errors_PartialUnchecked(data, partial, st) ==
    {f \in DOMAIN data : f \notin ClientFields}
        \cup {f \in {"name"} : ~partial /\ f \notin DOMAIN data}
        \cup {f \in DOMAIN data \cap ClientFields :
                 ~partial /\ FieldError(f, data[f], st)}

\* a bug that leaves id out of dump_only, so that load accepts the key
Errors_IdLoadable(data, partial, st) ==
    {f \in DOMAIN data : f \notin ClientFields \cup {"id"}}
        \cup {f \in {"name"} : ~partial /\ f \notin DOMAIN data}
        \cup {f \in DOMAIN data \cap ClientFields : FieldError(f, data[f], st)}

\* company_schema.load(data, partial=...): the keys of err.messages, empty
\* when the load succeeds.  Keys that are not loadable fields (dump_only
\* ones included) are unknown fields; name is the one required field.
Errors(data, partial, st) ==
    {f \in DOMAIN data : f \notin ClientFields}
        \cup {f \in {"name"} : ~partial /\ f \notin DOMAIN data}
        \cup {f \in DOMAIN data \cap ClientFields : FieldError(f, data[f], st)}

\* the instance load() returns (load_instance): attributes of absent keys are None
Validated(data) ==
    [f \in ClientFields |->
        IF f \in DOMAIN data THEN Deser(f, data[f]) ELSE None]

(* ------------------------------ Company -------------------------------- *)

\* keyword argument f of a call, or the parameter's default
Arg(kw, f, default) == IF f \in DOMAIN kw THEN kw[f] ELSE default

\* Company.create up to db.session.add: the new row
CompanyCreate(kw, company_id, t) ==
    [f \in Columns |->
        CASE f = "id" -> company_id
          [] f = "created_at" -> VInt(t)
          [] f = "updated_at" -> VInt(t)
          [] f = "organization_id" -> None
          [] f = "is_active" -> Arg(kw, f, VBool(TRUE))
          [] OTHER -> Arg(kw, f, None)]

\* a bug that assigns every argument, None included
CompanyUpdate_AssignNull(company, kw, t) ==
    [f \in Columns |->
        IF f \in ClientFields /\ f \in DOMAIN kw THEN kw[f]
        ELSE IF f = "updated_at" THEN VInt(t)
        ELSE company[f]]

\* a bug that forgets to stamp updated_at
CompanyUpdate_NoStamp(company, kw, t) ==
    [f \in Columns |->
        IF f \in ClientFields /\ f \in DOMAIN kw /\ ~IsNone(kw[f]) THEN kw[f]
        ELSE company[f]]

\* a bug that tests the arguments for truth instead of `is not None`
CompanyUpdate_Truthy(company, kw, t) ==
    [f \in Columns |->
        IF f \in ClientFields /\ f \in DOMAIN kw /\ Truthy(kw[f]) THEN kw[f]
        ELSE IF f = "updated_at" THEN VInt(t)
        ELSE company[f]]

\* Company.update up to db.session.commit: the row with the arguments
\* that are not None assigned and updated_at stamped
CompanyUpdate(company, kw, t) ==
    [f \in Columns |->
        IF f \in ClientFields /\ f \in DOMAIN kw /\ ~IsNone(kw[f]) THEN kw[f]
        ELSE IF f = "updated_at" THEN VInt(t)
        ELSE company[f]]

\* db.session.commit() of a session holding the new row: the table after a
\* commit that succeeds; a commit that raises is rolled back by the handler
Insert(st, company) == st \cup {company}

\* commit of an update of one row
Replace(st, old, new) == (st \ {old}) \cup {new}

\* a bug that deletes the children along with their parent
Remove_Cascade(st, company) ==
    {r \in st : r # company /\ r.parent_id # company.id}

\* a bug that marks the row inactive instead of deleting it
Remove_Soft(st, company) ==
    (st \ {company}) \cup {[company EXCEPT !.is_active = VBool(FALSE)]}

\* commit of Company.delete
Remove(st, company) == st \ {company}

(* ------------------------------ requests ------------------------------- *)

\* json_data.get(f)
Get(data, f) == IF f \in DOMAIN data THEN data[f] ELSE None

\* json_data.get(f, default)
GetDefault(data, f, default) == IF f \in DOMAIN data THEN data[f] ELSE default

\* the optional fields post() and put() read with json_data.get
GetFields ==
    {"description", "address", "phone_number", "email", "website", "logo_url",
     "registration_number", "tax_id", "country", "city", "postal_code"}

\* the keyword arguments CompanyListResource.post passes to Company.create
PostKwargs(data) ==
    [f \in {"name"} \cup GetFields \cup {"employees_count"} |->
        CASE f = "name" -> data["name"]
          [] f = "employees_count" -> GetDefault(data, f, VInt(0))
          [] OTHER -> Get(data, f)]

\* a bug that reads employees_count without the default
PutKwargs_NoDefault(data) ==
    [f \in {"name"} \cup GetFields \cup {"employees_count"} |->
        CASE f = "name" -> data["name"]
          [] OTHER -> Get(data, f)]

\* the keyword arguments CompanyResource.put passes to Company.update
PutKwargs(data) ==
    [f \in {"name"} \cup GetFields \cup {"employees_count"} |->
        CASE f = "name" -> data["name"]
          [] f = "employees_count" -> GetDefault(data, f, VInt(0))
          [] OTHER -> Get(data, f)]

\* update_kwargs of CompanyResource.patch: every client field the payload has
PatchKwargs(data) == [f \in DOMAIN data \cap ClientFields |-> data[f]]

\* the keyword arguments the import resources pass to Company.create
ImportKwargs(validated) ==
    [f \in CreateParams \ {"is_active"} |-> validated[f]]

NoPayload == [f \in {} |-> None]

\* a response (with the request it answers) before the handler fills it in
Response(op, id, data) ==
    [op |-> op, id |-> id, payload |-> data, rows |-> <<>>, fault |-> "ok",
     status |-> 0, message |-> "", errors |-> {}, failed |-> {}, count |-> 0,
     body |-> {}, file |-> <<>>]

ValidationFailed(op, id, data, errs) ==
    [Response(op, id, data) EXCEPT
        !.status = 400, !.message = "Validation error", !.errors = errs]

\* a bug that answers a missing id as a success without content
NotFound_NoContent(op, id, data) ==
    [Response(op, id, data) EXCEPT !.status = 204, !.message = "Company not found"]

NotFound(op, id, data) ==
    [Response(op, id, data) EXCEPT !.status = 404, !.message = "Company not found"]

\* a bug that catches SQLAlchemyError before its subclass IntegrityError
CommitFailed_BaseFirst(op, id, data, fault) ==
    [Response(op, id, data) EXCEPT
        !.fault = fault, !.status = 500, !.message = "Database error"]

\* the except clauses of post/put/patch: rollback, 400 for IntegrityError,
\* 500 for any other SQLAlchemyError
CommitFailed(op, id, data, fault) ==
    [Response(op, id, data) EXCEPT
        !.fault = fault,
        !.status = IF fault = "integrity" THEN 400 ELSE 500,
        !.message = IF fault = "integrity" THEN "Integrity error" ELSE "Database error"]

\* the except clause of delete: rollback, 500 for every SQLAlchemyError
DeleteFailed(id, fault) ==
    [Response("DELETE", id, NoPayload) EXCEPT
        !.fault = fault, !.status = 500, !.message = "Database error"]

Faults == {"ok", "integrity", "error"}

(* ------------------------------- inputs -------------------------------- *)

NameA == VStr(<<"A">>)
NameB == VStr(<<"B">>)
Url == VStr(Https \o <<"x">>)
Text == VStr(<<"x">>)
Mail == VStr(<<"a", "@", "b">>)

\* an id a client made up: uuid4 never hands it out
ForeignId == VStr(<<"#", "x">>)

\* the ids a request can name: the ones uuid4 hands out in a behaviour
Ids == {IdStr(n) : n \in 1..MaxIds}

\* the String columns whose only rule is a maximum length
TextFields ==
    {"description", "address", "phone_number", "registration_number",
     "tax_id", "country", "city", "postal_code"}

\* the optional keys, grouped by the rule the schema applies to them; the
\* requests of one behaviour carry, besides name, the keys of one group
Scopes ==
    {TextFields, {"logo_url", "website"}, {"email"}, {"parent_id"},
     {"organization_id"}, {"employees_count"}, {"is_active"}}

\* the values a payload may give to the keys of a group: null, a value that
\* passes the validator and, where there is one, a value that fails it; a
\* parent_id is null, the empty string or an id; a URL or an email may be
\* the empty string too
ScopeVals(g) ==
    CASE g = {"logo_url", "website"} -> {None, Url, Text, VStr(<<>>)}
      [] g = {"email"} -> {None, Mail, Text, VStr(<<>>)}
      [] g = {"parent_id"} -> {None, VStr(<<>>)} \cup Ids
      [] g = {"employees_count"} -> {None, VInt(5), VInt(-1)}
      [] g = {"is_active"} -> {None, VBool(FALSE), VBool(TRUE)}
      [] OTHER -> {None, Text}

\* a value of the group that passes validation whatever the table holds
ScopeValid(g) ==
    CASE g = {"logo_url", "website"} -> Url
      [] g = {"email"} -> Mail
      [] g = {"parent_id"} -> None
      [] g = {"employees_count"} -> VInt(5)
      [] g = {"is_active"} -> VBool(FALSE)
      [] OTHER -> Text

\* a payload that carries every client key
FullPayload ==
    [f \in ClientFields |->
        IF f = "name" THEN NameA
        ELSE ScopeValid(CHOOSE g \in Scopes : f \in g)]

\* JSON payloads of a behaviour: no key, every key, a name alone (valid,
\* empty or null), a name with the dump_only key id, the keys of the group
\* with or without a name
Payloads(g) ==
    {NoPayload, FullPayload, ("name" :> NameA) @@ ("id" :> ForeignId)}
        \cup {("name" :> v) : v \in {NameA, NameB, VStr(<<>>), None}}
        \cup UNION {{[f \in g |-> v], ("name" :> NameA) @@ [f \in g |-> v]} :
                        v \in ScopeVals(g)}

\* a value of the group for an imported row: as ScopeValid, but a parent_id
\* names the first id handed out
ScopeItem(g) == IF g = {"parent_id"} THEN IdStr(1) ELSE ScopeValid(g)

\* the items of an imported JSON array: a name alone, a name with the keys
\* of the group, and an item without a name
ItemA == ("name" :> NameA)
ItemB(g) == ("name" :> NameB) @@ [f \in g |-> ScopeItem(g)]
ItemX == NoPayload
ItemI == ("name" :> NameB) @@ ("id" :> ForeignId)

\* the JSON arrays a behaviour may import
JsonFiles(g) ==
    {<<>>, <<ItemA>>, <<ItemX>>, <<ItemX, ItemX>>, <<ItemA, ItemB(g)>>,
     <<ItemA, ItemA>>, <<ItemX, ItemB(g)>>, <<ItemA, ItemX, ItemB(g)>>,
     <<ItemA, ItemI>>}

\* the text of a CSV cell that holds value v ("" for None)
Cell(v) ==
    CASE v.t = "str" -> v.v
      [] v.t = "int" -> <<Digits[v.v + 1]>>
      [] v.t = "bool" -> IF v.v THEN <<"T", "r", "u", "e">>
                         ELSE <<"F", "a", "l", "s", "e">>
      [] OTHER -> <<>>

\* a row csv.DictReader yields for a file whose header has the columns id,
\* name and those of the group
CsvRow(g, name, v) ==
    [c \in {"id", "name"} \cup g |->
        CASE c = "id" -> Cell(ForeignId)
          [] c = "name" -> Cell(name)
          [] OTHER -> Cell(v)]

RowA(g) == CsvRow(g, NameA, None)
RowB(g) == CsvRow(g, NameB, ScopeItem(g))
RowX(g) == CsvRow(g, None, None)

\* the CSV files a behaviour may import
CsvFiles(g) ==
    {<<>>, <<RowA(g)>>, <<RowB(g)>>, <<RowA(g), RowB(g)>>, <<RowA(g), RowA(g)>>,
     <<RowX(g), RowB(g)>>, <<RowA(g), RowX(g), RowB(g)>>}

(* ------------------------------ handlers ------------------------------- *)

\* CompanyListResource.post after a successful load: Company.create and the
\* outcome of its commit
PostCreate(data, fault, t) ==
    LET company == CompanyCreate(PostKwargs(data), NextId(issued), t)
    IN  /\ issued' = issued + 1
        /\ IF fault = "ok"
           THEN /\ store' = Insert(store, company)
                /\ last' = [Response("POST", None, data) EXCEPT
                               !.status = 201, !.body = {company}]
           ELSE /\ store' = store
                /\ last' = CommitFailed("POST", None, data, fault)

\* POST /companies
Post(data, fault) ==
    /\ now < MaxReqs
    /\ now' = now + 1
    /\ scope' = scope
    /\ pending' = pending
    /\ LET errs == Errors(data, FALSE, store)
       IN  IF errs # {}
           THEN /\ fault = "ok"
                /\ last' = ValidationFailed("POST", None, data, errs)
                /\ UNCHANGED <<store, issued>>
           ELSE /\ issued < MaxIds
                /\ PostCreate(data, fault, now + 1)

\* GET /companies
GetAll ==
    /\ now < MaxReqs
    /\ now' = now + 1
    /\ scope' = scope
    /\ last' = [Response("LIST", None, NoPayload) EXCEPT !.status = 200, !.body = store]
    /\ UNCHANGED <<store, issued, pending>>

\* GET /companies/<id>
GetOne(id) ==
    /\ now < MaxReqs
    /\ now' = now + 1
    /\ scope' = scope
    /\ last' = IF GetById(store, id) = {}
               THEN NotFound("GET", id, NoPayload)
               ELSE [Response("GET", id, NoPayload) EXCEPT
                        !.status = 200, !.body = GetById(store, id)]
    /\ UNCHANGED <<store, issued, pending>>

\* a bug that looks the id up before it validates the payload
Put_LookupFirst(id, data, fault) ==
    /\ now < MaxReqs
    /\ now' = now + 1
    /\ scope' = scope
    /\ UNCHANGED <<issued, pending>>
    /\ LET errs == Errors(data, FALSE, store)
       IN  IF GetById(store, id) = {}
           THEN /\ fault = "ok"
                /\ last' = NotFound("PUT", id, data)
                /\ store' = store
           ELSE IF errs # {}
           THEN /\ fault = "ok"
                /\ last' = ValidationFailed("PUT", id, data, errs)
                /\ store' = store
           ELSE LET company == CHOOSE r \in GetById(store, id) : TRUE
                    updated == CompanyUpdate(company, PutKwargs(data), now + 1)
                IN  IF fault = "ok"
                    THEN /\ store' = Replace(store, company, updated)
                         /\ last' = [Response("PUT", id, data) EXCEPT
                                        !.status = 200, !.body = {updated}]
                    ELSE /\ store' = store
                         /\ last' = CommitFailed("PUT", id, data, fault)

\* PUT /companies/<id>
Put(id, data, fault) ==
    /\ now < MaxReqs
    /\ now' = now + 1
    /\ scope' = scope
    /\ UNCHANGED <<issued, pending>>
    /\ LET errs == Errors(data, FALSE, store)
       IN  IF errs # {}
           THEN /\ fault = "ok"
                /\ last' = ValidationFailed("PUT", id, data, errs)
                /\ store' = store
           ELSE IF GetById(store, id) = {}
           THEN /\ fault = "ok"
                /\ last' = NotFound("PUT", id, data)
                /\ store' = store
           ELSE LET company == CHOOSE r \in GetById(store, id) : TRUE
                    updated == CompanyUpdate(company, PutKwargs(data), now + 1)
                IN  IF fault = "ok"
                    THEN /\ store' = Replace(store, company, updated)
                         /\ last' = [Response("PUT", id, data) EXCEPT
                                        !.status = 200, !.body = {updated}]
                    ELSE /\ store' = store
                         /\ last' = CommitFailed("PUT", id, data, fault)

\* a bug that leaves the target row out of the uniqueness check
Patch_ExcludeSelf(id, data, fault) ==
    /\ now < MaxReqs
    /\ now' = now + 1
    /\ scope' = scope
    /\ UNCHANGED <<issued, pending>>
    /\ LET errs == Errors(data, TRUE, store \ GetById(store, id))
       IN  IF errs # {}
           THEN /\ fault = "ok"
                /\ last' = ValidationFailed("PATCH", id, data, errs)
                /\ store' = store
           ELSE IF GetById(store, id) = {}
           THEN /\ fault = "ok"
                /\ last' = [NotFound("PATCH", id, data) EXCEPT
                               !.message = "Company item not found"]
                /\ store' = store
           ELSE LET company == CHOOSE r \in GetById(store, id) : TRUE
                    updated == CompanyUpdate(company, PatchKwargs(data), now + 1)
                IN  IF fault = "ok"
                    THEN /\ store' = Replace(store, company, updated)
                         /\ last' = [Response("PATCH", id, data) EXCEPT
                                        !.status = 200, !.body = {updated}]
                    ELSE /\ store' = store
                         /\ last' = CommitFailed("PATCH", id, data, fault)

\* a bug that applies the keys that pass validation although the load failed
Patch_ApplyValid(id, data, fault) ==
    /\ now < MaxReqs
    /\ now' = now + 1
    /\ scope' = scope
    /\ UNCHANGED <<issued, pending>>
    /\ fault = "ok"
    /\ LET errs == Errors(data, TRUE, store)
           good == [f \in (DOMAIN data \cap ClientFields) \ errs |-> data[f]]
       IN  IF GetById(store, id) = {}
           THEN /\ last' = IF errs # {} THEN ValidationFailed("PATCH", id, data, errs)
                            ELSE NotFound("PATCH", id, data)
                /\ store' = store
           ELSE LET company == CHOOSE r \in GetById(store, id) : TRUE
                    updated == CompanyUpdate(company, good, now + 1)
                IN  /\ store' = Replace(store, company, updated)
                    /\ last' = IF errs # {} THEN ValidationFailed("PATCH", id, data, errs)
                                ELSE [Response("PATCH", id, data) EXCEPT
                                         !.status = 200, !.body = {updated}]

\* PATCH /companies/<id>
Patch(id, data, fault) ==
    /\ now < MaxReqs
    /\ now' = now + 1
    /\ scope' = scope
    /\ UNCHANGED <<issued, pending>>
    /\ LET errs == Errors(data, TRUE, store)
       IN  IF errs # {}
           THEN /\ fault = "ok"
                /\ last' = ValidationFailed("PATCH", id, data, errs)
                /\ store' = store
           ELSE IF GetById(store, id) = {}
           THEN /\ fault = "ok"
                /\ last' = [NotFound("PATCH", id, data) EXCEPT
                               !.message = "Company item not found"]
                /\ store' = store
           ELSE LET company == CHOOSE r \in GetById(store, id) : TRUE
                    updated == CompanyUpdate(company, PatchKwargs(data), now + 1)
                IN  IF fault = "ok"
                    THEN /\ store' = Replace(store, company, updated)
                         /\ last' = [Response("PATCH", id, data) EXCEPT
                                        !.status = 200, !.body = {updated}]
                    ELSE /\ store' = store
                         /\ last' = CommitFailed("PATCH", id, data, fault)

\* DELETE /companies/<id>
Delete(id, fault) ==
    /\ now < MaxReqs
    /\ now' = now + 1
    /\ scope' = scope
    /\ UNCHANGED <<issued, pending>>
    /\ IF GetById(store, id) = {}
       THEN /\ fault = "ok"
            /\ last' = NotFound("DELETE", id, NoPayload)
            /\ store' = store
       ELSE LET company == CHOOSE r \in GetById(store, id) : TRUE
            IN  IF fault = "ok"
                THEN /\ store' = Remove(store, company)
                     /\ last' = [Response("DELETE", id, NoPayload) EXCEPT
                                    !.status = 204,
                                    !.message = "Company deleted successfully"]
                ELSE /\ store' = store
                     /\ last' = DeleteFailed(id, fault)

(* ------------------------------- imports ------------------------------- *)

\* a bug that leaves the loop at the first item that fails the load
RECURSIVE ImportLoop_StopOnError(_, _, _, _, _)
ImportLoop_StopOnError(acc, items, idx, failAt, t) ==
    IF idx > Len(items) \/ acc.aborted THEN acc
    ELSE LET item == items[idx]
             errs == Errors(item, FALSE, acc.store)
             company == CompanyCreate(ImportKwargs(Validated(item)),
                                      NextId(acc.issued), t)
         IN  IF errs # {}
             THEN [acc EXCEPT !.failed = @ \cup {idx - 1}]
             ELSE IF failAt = idx
             THEN [acc EXCEPT !.issued = @ + 1, !.aborted = TRUE]
             ELSE ImportLoop_StopOnError(
                      [acc EXCEPT !.store = Insert(@, company),
                                  !.issued = @ + 1, !.count = @ + 1],
                      items, idx + 1, failAt, t)

\* the for loop of the import resources over the items from index idx on:
\* an item that fails the load is recorded under its 0-based index, an item
\* that loads is created and committed at once; the commit of item failAt
\* raises SQLAlchemyError, which leaves the loop
RECURSIVE ImportLoop(_, _, _, _, _)
ImportLoop(acc, items, idx, failAt, t) ==
    IF idx > Len(items) \/ acc.aborted THEN acc
    ELSE LET item == items[idx]
             errs == Errors(item, FALSE, acc.store)
             company == CompanyCreate(ImportKwargs(Validated(item)),
                                      NextId(acc.issued), t)
             next == IF errs # {}
                     THEN [acc EXCEPT !.failed = @ \cup {idx - 1}]
                     ELSE IF failAt = idx
                     THEN [acc EXCEPT !.issued = @ + 1, !.aborted = TRUE]
                     ELSE [acc EXCEPT !.store = Insert(@, company),
                                      !.issued = @ + 1, !.count = @ + 1]
         IN  ImportLoop(next, items, idx + 1, failAt, t)

\* a bug that answers 400 whenever a row failed, no 207
ImportResponse_NoPartial(op, items, r) ==
    IF r.aborted
    THEN [Response(op, None, NoPayload) EXCEPT
             !.rows = items, !.fault = "error", !.status = 400,
             !.message = "Database error"]
    ELSE IF r.failed # {}
    THEN [Response(op, None, NoPayload) EXCEPT
             !.rows = items, !.status = 400,
             !.message = "records imported, errors",
             !.failed = r.failed, !.count = r.count]
    ELSE [Response(op, None, NoPayload) EXCEPT
             !.rows = items, !.status = 200,
             !.message = "records imported successfully", !.count = r.count]

\* the response the import resources build after the loop
ImportResponse(op, items, r) ==
    IF r.aborted
    THEN [Response(op, None, NoPayload) EXCEPT
             !.rows = items, !.fault = "error", !.status = 400,
             !.message = "Database error"]
    ELSE IF r.failed # {}
    THEN [Response(op, None, NoPayload) EXCEPT
             !.rows = items, !.status = IF r.count = 0 THEN 400 ELSE 207,
             !.message = "records imported, errors",
             !.failed = r.failed, !.count = r.count]
    ELSE [Response(op, None, NoPayload) EXCEPT
             !.rows = items, !.status = 200,
             !.message = "records imported successfully", !.count = r.count]

\* the body shared by the two import resources once the file is read
Import(op, items, failAt) ==
    LET r == ImportLoop([store |-> store, issued |-> issued, count |-> 0,
                         failed |-> {}, aborted |-> FALSE],
                        items, 1, failAt, now + 1)
    IN  /\ r.issued <= MaxIds
        /\ failAt # 0 => r.aborted
        /\ store' = r.store
        /\ issued' = r.issued
        /\ last' = ImportResponse(op, items, r)

\* the answer to a request without a file, or with a file that does not parse
Malformed(op) ==
    /\ last' = [Response(op, None, NoPayload) EXCEPT
                   !.status = 400, !.message = "Invalid file"]
    /\ UNCHANGED <<store, issued>>

\* POST /companies/import.json
ImportJSON(wellformed, items, failAt) ==
    /\ now < MaxReqs
    /\ now' = now + 1
    /\ scope' = scope
    /\ pending' = pending
    /\ IF wellformed
       THEN Import("IMPORT_JSON", items, failAt)
       ELSE items = <<>> /\ failAt = 0 /\ Malformed("IMPORT_JSON")

\* the dict the CSV loop builds from a row: empty cells become None and the
\* id, created_at and updated_at columns are dropped
CsvData(row) ==
    [k \in DOMAIN row \ DumpOnly |-> IF row[k] = <<>> THEN None ELSE VStr(row[k])]

\* POST /companies/import.csv
ImportCSV(wellformed, rows, failAt) ==
    /\ now < MaxReqs
    /\ now' = now + 1
    /\ scope' = scope
    /\ pending' = pending
    /\ IF wellformed
       THEN Import("IMPORT_CSV", [i \in 1..Len(rows) |-> CsvData(rows[i])], failAt)
       ELSE rows = <<>> /\ failAt = 0 /\ Malformed("IMPORT_CSV")

(* -------------------------------- export ------------------------------ *)

\* the columns of the header row ExportCSVResource.get writes
ExportColumns == Columns

\* the row the writer emits for a company: one cell per column
ExportRow(company) == [c \in ExportColumns |-> Cell(company[c])]

\* the files an export of table st can produce: one row per company, in the
\* order the query returns them (a SELECT without ORDER BY: any order)
ExportFiles(st) ==
    {[i \in 1..Cardinality(st) |-> ExportRow(order[i])] :
        order \in {o \in [1..Cardinality(st) -> st] :
                      \A i, j \in 1..Cardinality(st) : o[i] = o[j] => i = j}}

\* GET /export/csv
ExportCSV(file) ==
    /\ now < MaxReqs
    /\ now' = now + 1
    /\ scope' = scope
    /\ file \in ExportFiles(store)
    /\ last' = [Response("EXPORT", None, NoPayload) EXCEPT
                   !.status = 200, !.file = file, !.body = store]
    /\ UNCHANGED <<store, issued, pending>>

(* ------------------------- requests one at a time ---------------------- *)

Init ==
    /\ store = {}
    /\ issued = 0
    /\ now = 0
    /\ last = Response("", None, NoPayload)
    /\ pending = {}
    /\ scope \in Scopes

Next ==
    \/ \E data \in Payloads(scope), fault \in Faults : Post(data, fault)
    \/ GetAll
    \/ \E id \in Ids : GetOne(id)
    \/ \E id \in Ids, data \in Payloads(scope), fault \in Faults : Put(id, data, fault)
    \/ \E id \in Ids, data \in Payloads(scope), fault \in Faults : Patch(id, data, fault)
    \/ \E id \in Ids, fault \in Faults : Delete(id, fault)
    \/ \E wellformed \in BOOLEAN, items \in JsonFiles(scope) :
           \E failAt \in 0..Len(items) : ImportJSON(wellformed, items, failAt)
    \/ \E wellformed \in BOOLEAN, rows \in CsvFiles(scope) :
           \E failAt \in 0..Len(rows) : ImportCSV(wellformed, rows, failAt)
    \/ \E file \in ExportFiles(store) : ExportCSV(file)

Spec == Init /\ [][Next]_vars

(* ------------------ requests to a table that holds a company ------------ *)

\* the company a POST of the name A alone stores in an empty table
SeedCompany == CompanyCreate(PostKwargs(ItemA), NextId(0), 0)

\* the service once that company is stored; the requests that follow are
\* counted from here
SeedInit ==
    /\ store = {SeedCompany}
    /\ issued = 1
    /\ now = 0
    /\ last = Response("", None, NoPayload)
    /\ pending = {}
    /\ scope \in Scopes

SeedSpec == SeedInit /\ [][Next]_vars

(* ------------------- requests with values of limit length --------------- *)

\* the String columns and the length each is declared with
DeclaredMax ==
    [name |-> 100, description |-> 500, logo_url |-> 255, address |-> 255,
     email |-> 100, phone_number |-> 20, website |-> 100,
     registration_number |-> 100, tax_id |-> 50, country |-> 100,
     city |-> 100, postal_code |-> 20]

LenFields == DOMAIN DeclaredMax

\* n characters
Pad(n) == [i \in 1..n |-> "x"]

\* a value of n characters for field f that meets the other rules of f: a URL
\* starts with https://, an email has an @, a name starts with A
Padded(f, n) ==
    CASE f \in {"logo_url", "website"} -> VStr(Https \o Pad(n - Len(Https)))
      [] f = "email" -> VStr(<<"@">> \o Pad(n - 1))
      [] f = "name" -> VStr(<<"A">> \o Pad(n - 1))
      [] OTHER -> VStr(Pad(n))

\* values of the declared length and one character longer
LenValues(f) == {Padded(f, DeclaredMax[f]), Padded(f, DeclaredMax[f] + 1)}

\* the payload of a POST that carries value v for field f
LenPost(f, v) == IF f = "name" THEN ("name" :> v) ELSE ("name" :> NameA) @@ (f :> v)

\* the payload of a PATCH that carries value v for field f
LenPatch(f, v) == (f :> v)

LenInit ==
    /\ store = {}
    /\ issued = 0
    /\ now = 0
    /\ last = Response("", None, NoPayload)
    /\ pending = {}
    /\ scope = TextFields

LenNext ==
    \/ \E f \in LenFields : \E v \in LenValues(f) : Post(LenPost(f, v), "ok")
    \/ \E id \in Ids, f \in LenFields :
           \E v \in LenValues(f) : Patch(id, LenPatch(f, v), "ok")

LenSpec == LenInit /\ [][LenNext]_vars

(* --------------------- two phases of concurrent POSTs ------------------- *)

\* a POST runs company_schema.load against the table as it is now; when the
\* load succeeds the request is in flight until its Company.create runs
PostValidate(data) ==
    /\ now < MaxReqs
    /\ now' = now + 1
    /\ scope' = scope
    /\ UNCHANGED <<store, issued>>
    /\ LET errs == Errors(data, FALSE, store)
       IN  IF errs # {}
           THEN /\ last' = ValidationFailed("POST", None, data, errs)
                /\ pending' = pending
           ELSE /\ last' = last
                /\ pending' = pending \cup {[req |-> now + 1, data |-> data]}

\* Company.create of a request in flight
PostInsert(p, fault) ==
    /\ p \in pending
    /\ issued < MaxIds
    /\ pending' = pending \ {p}
    /\ now' = now
    /\ scope' = scope
    /\ PostCreate(p.data, fault, now)

ConcNext ==
    \/ \E data \in Payloads(scope) : PostValidate(data)
    \/ \E p \in pending, fault \in Faults : PostInsert(p, fault)

ConcSpec == Init /\ [][ConcNext]_vars

(* ------------------------------ properties ----------------------------- *)

\* the ids of the rows of a table
IdsOf(st) == {r.id : r \in st}

\* the ids uuid4 has handed out when n were issued
IssuedIds(n) == {IdStr(k) : k \in 1..n}

\* C1: with requests served one at a time, no two stored companies have the
\* same name
C1_NameUnique ==
    \A r1 \in store, r2 \in store : r1.name = r2.name => r1 = r2

\* two companies are stored, each under its own name
C1_Witness ==
    /\ Cardinality(store) = 2
    /\ Cardinality({r.name : r \in store}) = 2

\* C2: when two POSTs with the same name both pass validation before either
\* inserts, the second insert is rejected, so every name is stored at most
\* once
C2_RaceRejected ==
    \A name \in {NameA, NameB} : Cardinality(GetByName(store, name)) <= 1

\* C3: a POST whose name is the name of a stored company is answered 400
\* with an error on name, whatever else the payload carries, and changes
\* nothing
C3_DuplicateRejected ==
    [][(/\ last'.op = "POST"
        /\ "name" \in DOMAIN last'.payload
        /\ GetByName(store, last'.payload["name"]) # {})
          => (/\ last'.status = 400
              /\ "name" \in last'.errors
              /\ store' = store)]_vars

\* a POST that carried a stored name and other keys was rejected on name
C3_Witness ==
    /\ last.op = "POST"
    /\ last.status = 400
    /\ "name" \in last.errors
    /\ Cardinality(DOMAIN last.payload) > 1
    /\ GetByName(store, last.payload["name"]) # {}

\* C4: a POST with a valid payload whose commit succeeds is answered 201 and
\* adds exactly one row, under an id no row has or ever had; the rows that
\* were stored stay as they were
C4_PostAddsOne ==
    [][/\ IdsOf(store') \subseteq IssuedIds(issued')
       /\ (/\ last'.op = "POST"
           /\ last'.fault = "ok"
           /\ Errors(last'.payload, FALSE, store) = {})
             => (/\ last'.status = 201
                 /\ \E c \in store' :
                       /\ c \notin store
                       /\ store' = store \cup {c}
                       /\ c.id \notin IssuedIds(issued)
                       /\ last'.body = {c}
                       /\ Cardinality(store') = Cardinality(store) + 1)]_vars

\* a POST was answered 201 while another company was stored
C4_Witness ==
    /\ last.op = "POST"
    /\ last.status = 201
    /\ Cardinality(store) = 2

\* C5: after a successful POST every client field the payload carries has the
\* payload's value in the stored row and in the returned one
C5_PostStoresPayload ==
    (last.op = "POST" /\ last.status = 201)
        => \A c \in last.body :
              /\ c \in store
              /\ \A f \in DOMAIN last.payload \cap ClientFields :
                    c[f] = last.payload[f]

\* C6: a successful PATCH sets every field the payload gives a non-null value
\* to that value and leaves the other fields of the row, updated_at apart,
\* and the other rows as they were
C6_PatchFrame ==
    [][(last'.op = "PATCH" /\ last'.status = 200)
          => \E old \in GetById(store, last'.id), new \in GetById(store', last'.id) :
                /\ \A f \in Columns \ {"updated_at"} :
                      new[f] = IF /\ f \in DOMAIN last'.payload
                                  /\ ~IsNone(last'.payload[f])
                               THEN last'.payload[f]
                               ELSE old[f]
                /\ store' \ {new} = store \ {old}
                /\ last'.body = {new}]_vars

\* a PATCH that carried a non-null value succeeded on one of two stored rows
C6_Witness ==
    /\ last.op = "PATCH"
    /\ last.status = 200
    /\ \E f \in DOMAIN last.payload : ~IsNone(last.payload[f])
    /\ Cardinality(store) = 2

\* the value a column has when nothing sets it
Default(f) ==
    CASE f = "is_active" -> {None, VBool(TRUE)}
      [] f = "employees_count" -> {None, VInt(0)}
      [] OTHER -> {None}

\* C7: a successful PUT replaces the whole row: every client field has the
\* payload's value, and a field the payload omits is null or at its default
C7_PutReplaces ==
    (last.op = "PUT" /\ last.status = 200)
        => \A c \in last.body :
              /\ c \in store
              /\ \A f \in ClientFields :
                    IF f \in DOMAIN last.payload
                    THEN c[f] = last.payload[f]
                    ELSE c[f] \in Default(f)

\* C8: no request changes the id of a stored row, and no payload sets an id:
\* updates, reads and failed requests keep the set of ids, a DELETE removes
\* only the id it names, creations add only ids that uuid4 hands out, and a
\* payload (or JSON item) with the key id is rejected
C8_IdImmutable ==
    [][/\ last'.op \in {"PUT", "PATCH", "GET", "LIST"}
          => (IdsOf(store') = IdsOf(store)
                /\ Cardinality(store') = Cardinality(store))
       /\ last'.op = "DELETE"
          => (IdsOf(store') = IF last'.status = 204
                              THEN IdsOf(store) \ {last'.id}
                              ELSE IdsOf(store))
       /\ last'.op \in {"POST", "IMPORT_JSON", "IMPORT_CSV"}
          => (/\ store \subseteq store'
              /\ IdsOf(store' \ store) \subseteq IssuedIds(issued') \ IssuedIds(issued)
              /\ Cardinality(IdsOf(store')) = Cardinality(store'))
       /\ "id" \in DOMAIN last'.payload
          => (last'.status = 400 /\ "id" \in last'.errors /\ store' = store)
       /\ \A i \in 1..Len(last'.rows) :
             ("id" \in DOMAIN last'.rows[i] /\ last'.fault = "ok")
                => (i - 1) \in last'.failed]_vars

\* a PUT or PATCH that carried a name succeeded on a stored row
C8_Witness ==
    /\ last.op \in {"PUT", "PATCH"}
    /\ last.status = 200
    /\ last.id \in IdsOf(store)
    /\ "name" \in DOMAIN last.payload

\* C9: a POST, PUT or PATCH rejected with a validation error applies nothing
\* of its payload
C9_RejectedAppliesNothing ==
    [][(/\ last'.op \in {"POST", "PUT", "PATCH"}
        /\ last'.status = 400
        /\ last'.errors # {})
          => store' = store]_vars

\* a PUT or PATCH of a stored row was rejected for one key while another key
\* of its payload was valid and non-null
C9_Witness ==
    /\ last.op \in {"PUT", "PATCH"}
    /\ last.status = 400
    /\ last.errors # {}
    /\ GetById(store, last.id) # {}
    /\ \E f \in DOMAIN last.payload \ last.errors : ~IsNone(last.payload[f])

\* C10: when the commit of a POST, PUT, PATCH or DELETE fails, the answer is
\* 400 for an integrity error of POST, PUT or PATCH and 500 otherwise, and
\* the table is as it was before the request
C10_CommitFailureRollsBack ==
    [][(/\ last'.op \in {"POST", "PUT", "PATCH", "DELETE"}
        /\ last'.fault # "ok")
          => (/\ store' = store
              /\ last'.status = IF last'.fault = "integrity" /\ last'.op # "DELETE"
                                THEN 400 ELSE 500
              /\ last'.errors = {})]_vars

\* the commit of a PUT of a stored row failed with an integrity error
C10_Witness ==
    /\ last.op = "PUT"
    /\ last.fault = "integrity"
    /\ last.status = 400
    /\ GetById(store, last.id) # {}

\* C11: a DELETE of a stored id whose commit succeeds is answered 204 and
\* removes that row and no other; an id that was handed out and is not
\* stored is never stored again, and a GET or DELETE of an id that is not
\* stored is answered 404
C11_DeleteRemoves ==
    [][/\ (/\ last'.op = "DELETE"
           /\ last'.fault = "ok"
           /\ GetById(store, last'.id) # {})
             => (/\ last'.status = 204
                 /\ store' = store \ GetById(store, last'.id)
                 /\ Cardinality(store') = Cardinality(store) - 1)
       /\ \A id \in IssuedIds(issued) \ IdsOf(store) : id \notin IdsOf(store')
       /\ (last'.op \in {"GET", "DELETE"} /\ last'.id \notin IdsOf(store))
             => (last'.status = 404 /\ store' = store)]_vars

\* the company the table started with was deleted, and a later GET or DELETE
\* of its id was answered 404
C11_Witness ==
    /\ last.op \in {"GET", "DELETE"}
    /\ last.id = SeedCompany.id
    /\ last.status = 404
    /\ now = 2


\* C12: a GET, PUT, PATCH or DELETE of an id that is not stored is answered
\* 404 and changes nothing (for PUT and PATCH, when the payload passes the
\* load)
C12_MissingIdNotFound ==
    [][(/\ last'.op \in {"GET", "PUT", "PATCH", "DELETE"}
        /\ GetById(store, last'.id) = {}
        /\ last'.op \in {"PUT", "PATCH"}
              => Errors(last'.payload, last'.op = "PATCH", store) = {})
          => (/\ last'.status = 404
              /\ store' = store
              /\ last'.body = {})]_vars

\* a PUT with a valid payload named an id that no stored company has, while
\* another company was stored
C12_Witness ==
    /\ last.op = "PUT"
    /\ last.status = 404
    /\ "name" \in DOMAIN last.payload
    /\ store # {}
    /\ GetById(store, last.id) = {}


\* C13: a non-null parent_id in the payload of a POST, PUT or PATCH or in an
\* imported row passes validation only when it is the id of a stored company;
\* otherwise the request (or row) is rejected on parent_id and stores nothing
C13_ParentMustExist ==
    [][/\ (/\ last'.op \in {"POST", "PUT", "PATCH"}
           /\ "parent_id" \in DOMAIN last'.payload
           /\ ~IsNone(last'.payload["parent_id"]))
             => IF GetById(store, last'.payload["parent_id"]) # {}
                THEN "parent_id" \notin last'.errors
                ELSE /\ last'.status = 400
                     /\ "parent_id" \in last'.errors
                     /\ store' = store
       /\ \A i \in 1..Len(last'.rows) :
             (/\ last'.fault = "ok"
              /\ "parent_id" \in DOMAIN last'.rows[i]
              /\ ~IsNone(last'.rows[i]["parent_id"])
              /\ GetById(store', last'.rows[i]["parent_id"]) = {})
                => (/\ (i - 1) \in last'.failed
                    /\ \A c \in store' \ store : c.name # last'.rows[i]["name"])]_vars


\* C14: a DELETE of a company that other rows name as their parent, when its
\* commit succeeds, is answered 204 and removes the company; every child stays
\* stored as it was, its parent_id now the id of no stored company
C14_DeleteOrphans ==
    [][(/\ last'.op = "DELETE"
        /\ last'.fault = "ok"
        /\ GetById(store, last'.id) # {}
        /\ \E c \in store : c.parent_id = last'.id /\ c.id # last'.id)
          => (/\ last'.status = 204
              /\ GetById(store', last'.id) = {}
              /\ \A c \in store :
                    (c.parent_id = last'.id /\ c.id # last'.id)
                       => (c \in store' /\ GetById(store', c.parent_id) = {}))]_vars

\* a company was deleted and a stored company still names it as its parent
C14_Witness ==
    /\ last.op = "DELETE"
    /\ last.status = 204
    /\ \E c \in store : c.parent_id = last.id


\* the number of rows before row i of the imported file that were not
\* recorded as errors
PassedBefore(resp, i) == Cardinality({j \in 1..(i - 1) : (j - 1) \notin resp.failed})

\* the table as it is when row i of an import is reached: table st of
\* before the request and the rows of st2 created for the rows that
\* passed before row i, n ids having been handed out before the request
StoreAt(st, n, st2, resp, i) ==
    st \cup {c \in st2 : c.id \in {IdStr(n + k) : k \in 1..PassedBefore(resp, i)}}

\* C15: an import of a well-formed file without a storage error goes through
\* every row: a row that fails validation against the table as it is when the
\* row is reached is recorded under its index and creates nothing, and every
\* other row, before or after it, is created
C15_ImportSkipsFailures ==
    [][(/\ last'.op \in {"IMPORT_JSON", "IMPORT_CSV"}
        /\ last'.fault = "ok"
        /\ last'.message # "Invalid file")
          => \A i \in 1..Len(last'.rows) :
                LET rowId == IdStr(issued + PassedBefore(last', i) + 1)
                IN  IF Errors(last'.rows[i], FALSE,
                              StoreAt(store, issued, store', last', i)) # {}
                    THEN /\ (i - 1) \in last'.failed
                         /\ rowId \notin IdsOf(StoreAt(store, issued, store', last', i + 1))
                    ELSE /\ (i - 1) \notin last'.failed
                         /\ \E c \in store' \ store :
                               /\ c.id = rowId
                               /\ c.name = last'.rows[i]["name"]]_vars

\* an import created the rows before and after a row that failed validation
C15_Witness ==
    /\ last.op \in {"IMPORT_JSON", "IMPORT_CSV"}
    /\ Len(last.rows) = 3
    /\ last.failed = {1}
    /\ Cardinality(store) = 2
    /\ \A i \in {1, 3} : \E c \in store : c.name = last.rows[i]["name"]


\* C16: an import of a well-formed file of n rows, k of which pass
\* validation, without a storage error adds exactly k rows and reports k; its
\* errors carry the indexes of the n - k failed rows; the status is 200 when
\* no row failed, 207 when some passed and some failed, 400 when all failed
C16_ImportCounts ==
    [][(/\ last'.op \in {"IMPORT_JSON", "IMPORT_CSV"}
        /\ last'.fault = "ok"
        /\ last'.message # "Invalid file")
          => LET n == Len(last'.rows)
                 bad == {i \in 1..n :
                            Errors(last'.rows[i], FALSE,
                                   StoreAt(store, issued, store', last', i)) # {}}
                 k == n - Cardinality(bad)
             IN  /\ store \subseteq store'
                 /\ Cardinality(store' \ store) = k
                 /\ last'.count = k
                 /\ last'.failed = {i - 1 : i \in bad}
                 /\ Cardinality(last'.failed) = n - k
                 /\ last'.status = IF n - k = 0 THEN 200
                                   ELSE IF k > 0 THEN 207 ELSE 400]_vars

\* an import in which one row passed and one failed was answered 207
C16_Witness ==
    /\ last.op \in {"IMPORT_JSON", "IMPORT_CSV"}
    /\ last.status = 207
    /\ last.count = 1
    /\ Cardinality(last.failed) = 1
    /\ Len(last.rows) = 2


\* C17: when the insert of a row fails with a storage error during an
\* import, the request is answered with an error and the table is as it was
\* before the request
C17_ImportAllOrNothing ==
    [][(/\ last'.op \in {"IMPORT_JSON", "IMPORT_CSV"}
        /\ last'.fault = "error")
          => (/\ last'.status >= 400
              /\ store' = store)]_vars


\* the rows of a table under other names: a table that holds none of the
\* names of st, in which the ids of st exist
Renamed(st) == {[r EXCEPT !.name = VStr(<<"Z">> \o r.name.v)] : r \in st}

\* the companies a CSV import of file creates in table target
Imported(file, target) ==
    ImportLoop([store |-> target, issued |-> issued, count |-> 0,
                failed |-> {}, aborted |-> FALSE],
               [i \in 1..Len(file) |-> CsvData(file[i])], 1, 0, now + 1).store
        \ target

\* C18: importing the CSV file an export produced into a table that holds
\* none of the exported names creates one company per exported company, equal
\* to it in every field but id, created_at and updated_at (equal as far as
\* CSV text tells: null and the empty string are both the empty cell)
C18_ExportImportRoundTrip ==
    last.op = "EXPORT"
        => LET made == Imported(last.file, Renamed(last.body))
           IN  /\ Cardinality(made) = Cardinality(last.body)
               /\ \A c \in last.body :
                     \E d \in made :
                        \A f \in ClientFields : Cell(d[f]) = Cell(c[f])


\* C19 as stated: the import of a file right after an import of the same
\* file in which every row succeeded adds nothing, rejects every row on its
\* name, and is answered 400
C19_ReimportRejected ==
    [][(/\ last.op \in {"IMPORT_JSON", "IMPORT_CSV"}
        /\ last.status = 200
        /\ last'.op = last.op
        /\ last'.rows = last.rows
        /\ last'.fault = "ok"
        /\ last'.message # "Invalid file")
          => (/\ store' = store
              /\ last'.status = 400
              /\ last'.count = 0
              /\ \A i \in 1..Len(last'.rows) :
                    /\ (i - 1) \in last'.failed
                    /\ "name" \in Errors(last'.rows[i], FALSE, store))]_vars

\* C19 amended: the same, for a file of at least one row (the second import
\* of a file without rows is answered 200 like the first)
C19_ReimportRejectedNonEmpty ==
    [][(/\ last.op \in {"IMPORT_JSON", "IMPORT_CSV"}
        /\ last.status = 200
        /\ Len(last.rows) > 0
        /\ last'.op = last.op
        /\ last'.rows = last.rows
        /\ last'.fault = "ok"
        /\ last'.message # "Invalid file")
          => (/\ store' = store
              /\ last'.status = 400
              /\ last'.count = 0
              /\ \A i \in 1..Len(last'.rows) :
                    /\ (i - 1) \in last'.failed
                    /\ "name" \in Errors(last'.rows[i], FALSE, store))]_vars

\* a file of two rows was imported twice: the first import created both
\* companies, the second rejected both rows
C19_Witness ==
    /\ last.op \in {"IMPORT_JSON", "IMPORT_CSV"}
    /\ last.status = 400
    /\ Len(last.rows) = 2
    /\ last.failed = {0, 1}
    /\ now = 2
    /\ issued = 2
    /\ \A i \in 1..2 :
          /\ "name" \in DOMAIN last.rows[i]
          /\ GetByName(store, last.rows[i]["name"]) # {}
    /\ Cardinality(store) = 2


\* the maximum length the claim gives for each string field
ClaimedMax ==
    [name |-> 100, description |-> 500, logo_url |-> 255, address |-> 255,
     email |-> 100, phone_number |-> 20, website |-> 100,
     registration_number |-> 100, tax_id |-> 50, country |-> 100,
     city |-> 100, postal_code |-> 20]

\* value v meets every rule of field f but the one on its length
OtherwiseValid(f, v, st) ==
    CASE f = "name" -> GetByName(st, v) = {}
      [] f \in {"logo_url", "website"} -> StartsWith(v.v, Https)
      [] f = "email" -> Contains(v.v, "@")
      [] OTHER -> TRUE

\* C20: for each string field with a maximum length L, a POST or PATCH with
\* an otherwise valid value of length L passes the field's validation (and a
\* request that succeeds stores the value), and one with a value of length
\* L + 1 is rejected with an error under that field and stores nothing
C20_MaxLengths ==
    [][last'.op \in {"POST", "PATCH"}
          => \A f \in DOMAIN last'.payload \cap DOMAIN ClaimedMax :
                LET v == last'.payload[f]
                IN  /\ (Len(v.v) = ClaimedMax[f] /\ OtherwiseValid(f, v, store))
                          => (/\ f \notin last'.errors
                              /\ last'.status \in {200, 201}
                                    => \A c \in last'.body :
                                          c \in store' /\ c[f] = v)
                    /\ Len(v.v) = ClaimedMax[f] + 1
                          => (/\ f \in last'.errors
                              /\ last'.status = 400
                              /\ store' = store)]_vars

\* a company was created with a description of the maximum length, and then
\* a request with a value one character longer than its field allows was
\* rejected
C20_Witness ==
    /\ \E c \in store :
          /\ ~IsNone(c.description)
          /\ Len(c.description.v) = ClaimedMax["description"]
    /\ last.status = 400
    /\ \E f \in last.errors \cap DOMAIN last.payload :
          Len(last.payload[f].v) = ClaimedMax[f] + 1


\* C21: a POST or PUT whose payload has no name is answered 400 with an
\* error on name; a PATCH whose payload has no name is checked on the keys it
\* carries only and, when they are valid (the id stored, the commit
\* succeeding), is answered 200 and leaves the stored name as it was
C21_NameRequired ==
    [][/\ (last'.op \in {"POST", "PUT"} /\ "name" \notin DOMAIN last'.payload)
             => (/\ last'.status = 400
                 /\ "name" \in last'.errors
                 /\ store' = store)
       /\ (last'.op = "PATCH" /\ "name" \notin DOMAIN last'.payload)
             => (/\ last'.errors \subseteq DOMAIN last'.payload
                 /\ (/\ last'.errors = {}
                     /\ last'.fault = "ok"
                     /\ GetById(store, last'.id) # {})
                       => (/\ last'.status = 200
                           /\ \E old \in GetById(store, last'.id),
                                 new \in GetById(store', last'.id) :
                                    new.name = old.name))]_vars

\* a PATCH without a name that carried a non-null value succeeded
C21_Witness ==
    /\ last.op = "PATCH"
    /\ last.status = 200
    /\ "name" \notin DOMAIN last.payload
    /\ \E f \in DOMAIN last.payload : ~IsNone(last.payload[f])
    /\ \E c \in GetById(store, last.id) : Truthy(c.name)


\* C22: every stored company meets the field rules: its name is not empty
\* and has at most 100 characters, each string field that is not null is
\* within its maximum length, an email that is not null contains an @, a
\* logo_url or website that is not null starts with http:// or https://,
\* and employees_count is null or an integer that is not negative
C22_StoredRecordsValid ==
    \A c \in store :
        /\ c.name.t = "str"
        /\ Len(c.name.v) > 0
        /\ \A f \in DOMAIN ClaimedMax :
              ~IsNone(c[f]) => (c[f].t = "str" /\ Len(c[f].v) <= ClaimedMax[f])
        /\ ~IsNone(c.email) => Contains(c.email.v, "@")
        /\ \A f \in {"logo_url", "website"} :
              ~IsNone(c[f]) => (StartsWith(c[f].v, Http) \/ StartsWith(c[f].v, Https))
        /\ IsNone(c.employees_count)
              \/ (c.employees_count.t = "int" /\ c.employees_count.v >= 0)


\* C23: a PATCH that gives null to a field other than name is not rejected
\* for it and, when it succeeds, leaves the stored value of that field as it
\* was; no PATCH turns a stored value that is not null into null
C23_PatchNullKeeps ==
    [][last'.op = "PATCH"
          => /\ \A f \in (DOMAIN last'.payload \cap ClientFields) \ {"name"} :
                   IsNone(last'.payload[f])
                      => (/\ f \notin last'.errors
                          /\ last'.status = 200
                                => \E old \in GetById(store, last'.id),
                                      new \in GetById(store', last'.id) :
                                         new[f] = old[f])
             /\ (/\ last'.errors = {}
                 /\ last'.fault = "ok"
                 /\ GetById(store, last'.id) # {}) => last'.status = 200
             /\ \A old \in GetById(store, last'.id),
                   new \in GetById(store', last'.id) :
                      \A f \in ClientFields : ~IsNone(old[f]) => ~IsNone(new[f])]_vars

\* a PATCH that gave null to a field succeeded, and the stored value of that
\* field is not null
C23_Witness ==
    /\ last.op = "PATCH"
    /\ last.status = 200
    /\ \E f \in (DOMAIN last.payload \cap ClientFields) \ {"name", "is_active", "employees_count"} :
          /\ IsNone(last.payload[f])
          /\ \E c \in GetById(store, last.id) : ~IsNone(c[f])


\* C24: with the request counter as the clock, a company gets its created_at
\* when it is created and keeps it; a successful PUT or PATCH sets the
\* updated_at of its target to the time of the request; no request changes
\* the updated_at of a company it does not target
C24_Timestamps ==
    [][/\ \A d \in store' :
             IF d.id \in IdsOf(store)
             THEN \E c \in GetById(store, d.id) :
                     /\ d.created_at = c.created_at
                     /\ (last'.op \in {"PUT", "PATCH"} /\ last'.id = d.id
                            /\ last'.status = 200)
                           \/ d.updated_at = c.updated_at
             ELSE d.created_at = VInt(now')
       /\ (last'.op \in {"PUT", "PATCH"} /\ last'.status = 200)
             => \E d \in GetById(store', last'.id) : d.updated_at = VInt(now')]_vars

\* a PATCH or PUT stamped its target, created by an earlier request, and left
\* the other stored company alone
C24_Witness ==
    /\ last.op \in {"PUT", "PATCH"}
    /\ last.status = 200
    /\ Cardinality(store) = 2
    /\ \E d \in GetById(store, last.id) :
          d.updated_at = VInt(now) /\ d.created_at # VInt(now)
    /\ \E c \in store : c.id # last.id /\ c.updated_at # VInt(now)


\* the ids of the companies of st whose parent_id is in S
ChildrenOf(st, S) == {r.id : r \in {x \in st : x.parent_id \in S}}

\* S and the ids reached from it in up to k steps from parent to child
RECURSIVE Below(_, _, _)
Below(st, S, k) ==
    IF k = 0 THEN S ELSE Below(st, S \cup ChildrenOf(st, S), k - 1)

\* a company's id and the ids of its descendants
SelfAndDescendants(st, id) == Below(st, {id}, Cardinality(st))

\* C25: a PATCH of a stored company that gives as parent_id the company's
\* own id or the id of one of its descendants is not rejected for it and,
\* when the rest of the payload is valid and the commit succeeds, is answered
\* 200 and stored: the company is then its own ancestor
C25_CyclesAccepted ==
    [][(/\ last'.op = "PATCH"
        /\ last'.fault = "ok"
        /\ GetById(store, last'.id) # {}
        /\ "parent_id" \in DOMAIN last'.payload
        /\ last'.payload["parent_id"] \in SelfAndDescendants(store, last'.id))
          => (/\ "parent_id" \notin last'.errors
              /\ last'.errors = {}
                    => (/\ last'.status = 200
                        /\ \E new \in GetById(store', last'.id) :
                              /\ new.parent_id = last'.payload["parent_id"]
                              /\ new.id \in ChildrenOf(store',
                                    SelfAndDescendants(store', new.id))))]_vars

\* a PATCH made a company the child of its own child: two stored companies
\* are each other's parent
C25_Witness ==
    /\ last.op = "PATCH"
    /\ last.status = 200
    /\ \E a \in store, b \in store :
          /\ a.id # b.id
          /\ a.id = last.id
          /\ a.parent_id = b.id
          /\ b.parent_id = a.id


\* C26: a PUT or PATCH whose payload carries the name of a stored company,
\* be it the current name of its own target, is answered 400 with an error
\* on name and changes nothing
C26_OwnNameRejected ==
    [][(/\ last'.op \in {"PUT", "PATCH"}
        /\ "name" \in DOMAIN last'.payload
        /\ GetByName(store, last'.payload["name"]) # {})
          => (/\ last'.status = 400
              /\ "name" \in last'.errors
              /\ store' = store)]_vars

\* a PUT or PATCH that carried the current name of its target was rejected
C26_Witness ==
    /\ last.op \in {"PUT", "PATCH"}
    /\ last.status = 400
    /\ "name" \in last.errors
    /\ "name" \in DOMAIN last.payload
    /\ \E c \in GetById(store, last.id) : c.name = last.payload["name"]


\* C27: a PUT or PATCH with a payload that fails the load, sent to an id that
\* is not stored, is answered 400 with the validation errors, not 404
C27_ValidateBeforeLookup ==
    [][(/\ last'.op \in {"PUT", "PATCH"}
        /\ GetById(store, last'.id) = {}
        /\ Errors(last'.payload, last'.op = "PATCH", store) # {})
          => (/\ last'.status = 400
              /\ last'.message = "Validation error"
              /\ last'.errors # {}
              /\ store' = store)]_vars

\* a PUT with an invalid payload named an id that is not stored and was
\* answered 400
C27_Witness ==
    /\ last.op = "PUT"
    /\ last.status = 400
    /\ last.errors # {}
    /\ GetById(store, last.id) = {}


====
